---- MODULE Spec2Model ----
(***************************************************************************)
(* IntelliCaster: the commentary generation loop (core/commentary.py) and  *)
(* the timeline assembly stage (core/editor.py).                           *)
(*                                                                         *)
(* Spec          TextGenerator.generate and its conversation window        *)
(* SpecPacing    Commentary.generate -> VoiceGenerator.generate timing     *)
(* SpecEditor    Editor.create_video over the working directory            *)
(***************************************************************************)
EXTENDS Integers, Sequences, FiniteSets, TLC

(***************************************************************************)
(* Bounds of the model.                                                    *)
(***************************************************************************)
MaxMemoryLimit == 2
MaxCalls == 4
NumEvents == 2
MaxInFlight == 2
MaxLines == 3
MaxTextTicks == 1
MaxSpeechTicks == 1
MaxCtime == 2
MaxJobs == 2
MaxSessionLines == 2
MaxTextLen == 6
MaxEvents == 5

VARIABLES
    previous_responses,  \* TextGenerator.previous_responses
    memory_limit,        \* common.settings["commentary"]["memory_limit"]
    gpt_model,           \* common.settings["commentary"]["gpt_model"]
    league,              \* common.context["league"]
    inflight,            \* generate calls that wait for the backend
    ncalls,              \* number of generate calls started so far
    last_call,           \* the generate call that ended last, and how
    files,               \* names in the working directory (<iracing_path>/videos)
    now,                 \* time.time() - rec_start_time, in milliseconds
    pc,                  \* where Commentary.generate stands
    frame,               \* the locals of the running Commentary.generate
    line,                \* the Commentary.generate call that ended last
    ctime,               \* os.path.getctime of the videos in the directory
    unreadable,          \* files whose content the media library cannot load
    video_format,        \* common.settings["general"]["video_format"]
    durations,           \* playing time of the .mp3 files, in milliseconds
    rendered,            \* the lines rendered so far: timestamp and length
    speech,              \* the VoiceGenerator.generate text, before and after
    njobs,               \* number of create_video calls so far
    job,                 \* the create_video call that ended last
    events,              \* Events.events, newest first
    id_counter           \* Events.id_counter

textVars == <<previous_responses, memory_limit, gpt_model, league,
              inflight, ncalls, last_call>>
paceVars == <<now, pc, frame, line, rendered, speech>>
editVars == <<ctime, unreadable, video_format, njobs, job, durations>>
eventVars == <<events, id_counter>>
vars == <<previous_responses, memory_limit, gpt_model, league,
          inflight, ncalls, last_call, files, now, pc, frame, line,
          ctime, unreadable, video_format, njobs, job,
          durations, rendered, speech, events, id_counter>>

(***************************************************************************)
(* Settings and inputs.                                                    *)
(***************************************************************************)
ModelSettings == {"GPT-3.5 Turbo", "GPT-4 Turbo", "GPT-4 Turbo with Vision"}
Roles == {"play-by-play", "color", "pit-reporter"}
Events == 1..NumEvents
\* lap_percent is None (the empty tuple) or a fraction of the lap, in percent
NoLap == <<>>
LapPercents == {NoLap, <<25>>}
\* common.context["league"]: which of name / short_name are set, and
\* whether short_name is exactly one word
Leagues == {"none", "name", "name+short", "name+long_short"}
Answers == {7}

(***************************************************************************)
(* Messages.  A message is a Python dict; kind tells the texts apart that   *)
(* the code builds in different ways, val is what the text is built from.  *)
(***************************************************************************)
Msg(role, name, kind, val) ==
    [role |-> role, name |-> name, kind |-> kind, val |-> val]

RoleCode(role) ==
    CASE role = "play-by-play" -> 1
      [] role = "color" -> 2
      [] OTHER -> 0

SysInit(role) == Msg("system", "instructions", "persona", RoleCode(role))

SysContext(lg) ==
    IF lg = "none" THEN <<>>
    ELSE <<Msg("system", "context", "league", IF lg = "name" THEN 1 ELSE 2)>>

SysEvent == Msg("system", "event_info", "weekend", 0)

SystemMessages(role, lg) == <<SysInit(role)>> \o SysContext(lg) \o <<SysEvent>>

EventMsg(event) == Msg("user", "", "event", event)

LapMsg(lap_percent) ==
    IF lap_percent # NoLap
    THEN <<Msg("user", "", "lap", lap_percent[1])>>
    ELSE <<>>

ImageMsg == Msg("user", "", "image", 0)

VisionMsg(model_setting) ==
    IF model_setting = "GPT-4 Turbo with Vision" THEN <<ImageMsg>> ELSE <<>>

FormattedAnswer(role, answer) ==
    Msg("assistant",
        IF role = "play-by-play" THEN "Play-By-Play" ELSE "Color",
        "answer", answer)

\* BuildMessages with the history replayed after the new user turn
BuildMessagesHistoryLast(window, event, lap_percent, role, lg, model_setting) ==
    SystemMessages(role, lg) \o <<EventMsg(event)>> \o window
        \o LapMsg(lap_percent) \o VisionMsg(model_setting)

\* The list handed to client.chat.completions.create
BuildMessages(window, event, lap_percent, role, lg, model_setting) ==
    SystemMessages(role, lg) \o window \o <<EventMsg(event)>>
        \o LapMsg(lap_percent) \o VisionMsg(model_setting)

\* Evict popping from the tail (pop() for pop(0))
EvictNewest(window, limit) ==
    IF Len(window) > limit * 2
    THEN SubSeq(window, 1, Len(window) - 2)
    ELSE window

\* "If the list is too long, remove the two oldest responses"
Evict(window, limit) ==
    IF Len(window) > limit * 2
    THEN Tail(Tail(window))
    ELSE window

\* The league short name is read at line 221 whether or not line 212 bound it
ShortNameUnbound(lg) == lg = "name+long_short"

ScreenshotName == <<"screenshot", ".png">>

\* File names are sequences of tokens: single characters and the fixed
\* substrings the code looks for ("commentary_", ".mp3", ".mp4", ".png")
Digit(d) ==
    CASE d = 0 -> "0" [] d = 1 -> "1" [] d = 2 -> "2" [] d = 3 -> "3"
      [] d = 4 -> "4" [] d = 5 -> "5" [] d = 6 -> "6" [] d = 7 -> "7"
      [] d = 8 -> "8" [] d = 9 -> "9"

IsDigit(t) == t \in {"0", "1", "2", "3", "4", "5", "6", "7", "8", "9"}

\* f"{timestamp}" of a non-negative int
RECURSIVE Str(_)
Str(n) ==
    IF n < 10 THEN <<Digit(n)>> ELSE Str(n \div 10) \o <<Digit(n % 10)>>

\* The file name with the timestamp in whole seconds
CommentaryNameInSeconds(timestamp) ==
    <<"commentary_">> \o Str(timestamp \div 1000) \o <<".mp3">>

\* f"commentary_{timestamp}.mp3"
CommentaryName(timestamp) == <<"commentary_">> \o Str(timestamp) \o <<".mp3">>

\* A caller that starts a generate call while another one waits
CallerMayCallConcurrently == TRUE

\* The event loop that calls Commentary.generate is a single synchronous flow
CallerMayCall == inflight = {}

NoCall == [id |-> 0, outcome |-> "none", event |-> 0, lap_percent |-> NoLap,
           role |-> "", before |-> <<>>, messages |-> <<>>, answer |-> 0]

\* Events.__init__
EventsInit ==
    /\ events = <<>>
    /\ id_counter = 0

(***************************************************************************)
(* TextGenerator                                                           *)
(***************************************************************************)
TextInit ==
    /\ previous_responses = <<>>
    /\ memory_limit \in 0..MaxMemoryLimit
    /\ gpt_model \in ModelSettings
    /\ league \in Leagues
    /\ inflight = {}
    /\ ncalls = 0
    /\ last_call = NoCall

\* generate, lines 162-230 when the league short name is not one word:
\* NameError before the window is touched
TextNameError(event, lap_percent, role) ==
    /\ CallerMayCall
    /\ ncalls < MaxCalls
    /\ ShortNameUnbound(league)
    /\ ncalls' = ncalls + 1
    /\ last_call' = [NoCall EXCEPT !.id = ncalls + 1,
                                   !.outcome = "name_error",
                                   !.event = event,
                                   !.lap_percent = lap_percent,
                                   !.role = role,
                                   !.before = previous_responses]
    /\ UNCHANGED <<previous_responses, memory_limit, gpt_model, league,
                   inflight, files>>

\* TextCall that remembers the lap hint along with the event message
TextCallStoresLapHint(event, lap_percent, role) ==
    /\ CallerMayCall
    /\ Cardinality(inflight) < MaxInFlight
    /\ ncalls < MaxCalls
    /\ ~ShortNameUnbound(league)
    /\ ncalls' = ncalls + 1
    /\ previous_responses' =
           Append(previous_responses, EventMsg(event)) \o LapMsg(lap_percent)
    /\ inflight' = inflight \cup
         {[NoCall EXCEPT !.id = ncalls + 1,
                         !.outcome = "waiting",
                         !.event = event,
                         !.lap_percent = lap_percent,
                         !.role = role,
                         !.before = previous_responses,
                         !.messages = BuildMessages(previous_responses, event,
                                         lap_percent, role, league, gpt_model)]}
    /\ files' = IF gpt_model = "GPT-4 Turbo with Vision"
                THEN files \cup {ScreenshotName}
                ELSE files
    /\ UNCHANGED <<memory_limit, gpt_model, league, last_call>>

\* generate, lines 162-356: build the messages, remember the event message,
\* take the screenshot in vision mode, then wait for the backend
TextCall(event, lap_percent, role) ==
    /\ CallerMayCall
    /\ Cardinality(inflight) < MaxInFlight
    /\ ncalls < MaxCalls
    /\ ~ShortNameUnbound(league)
    /\ ncalls' = ncalls + 1
    /\ previous_responses' = Append(previous_responses, EventMsg(event))
    /\ inflight' = inflight \cup
         {[NoCall EXCEPT !.id = ncalls + 1,
                         !.outcome = "waiting",
                         !.event = event,
                         !.lap_percent = lap_percent,
                         !.role = role,
                         !.before = previous_responses,
                         !.messages = BuildMessages(previous_responses, event,
                                         lap_percent, role, league, gpt_model)]}
    /\ files' = IF gpt_model = "GPT-4 Turbo with Vision"
                THEN files \cup {ScreenshotName}
                ELSE files
    /\ UNCHANGED <<memory_limit, gpt_model, league, last_call>>

\* generate, lines 357-382: the backend answered
TextReturn(c, answer) ==
    /\ c \in inflight
    /\ previous_responses' =
         Evict(Append(previous_responses, FormattedAnswer(c.role, answer)),
               memory_limit)
    /\ inflight' = inflight \ {c}
    /\ last_call' = [c EXCEPT !.outcome = "returned", !.answer = answer]
    /\ UNCHANGED <<memory_limit, gpt_model, league, ncalls, files>>

\* TextRaise that undoes the append with pop(0) for pop()
TextRaisePopsOldest(c) ==
    /\ c \in inflight
    /\ previous_responses' = Tail(previous_responses)
    /\ inflight' = inflight \ {c}
    /\ last_call' = [c EXCEPT !.outcome = "backend_error"]
    /\ UNCHANGED <<memory_limit, gpt_model, league, ncalls, files>>

\* generate, line 358: the backend call raised; the exception leaves generate
TextRaise(c) ==
    /\ c \in inflight
    /\ inflight' = inflight \ {c}
    /\ last_call' = [c EXCEPT !.outcome = "backend_error"]
    /\ UNCHANGED <<previous_responses, memory_limit, gpt_model, league,
                   ncalls, files>>

(***************************************************************************)
(* Specification Spec: TextGenerator.generate called on its own.           *)
(***************************************************************************)
NoFrame == [start_time |-> 0, timestamp |-> 0, role |-> "", yelling |-> FALSE,
            gpt_time |-> 0]

NoLine == [outcome |-> "none", role |-> "", timestamp |-> 0, length |-> 0,
           text_begin |-> 0, text_end |-> 0, voice_begin |-> 0,
           voice_end |-> 0, returned_at |-> 0]

NoSpeech == [outcome |-> "none", text |-> <<>>, yelling |-> FALSE,
             yelled |-> <<>>, sent |-> <<>>]

PaceInit ==
    /\ now = 0
    /\ pc = "idle"
    /\ frame = NoFrame
    /\ line = NoLine
    /\ rendered = {}
    /\ speech = NoSpeech

GenerateNameError(event, lap_percent, role) ==
    TextNameError(event, lap_percent, role) /\ UNCHANGED <<paceVars, editVars, eventVars>>

GenerateCall(event, lap_percent, role) ==
    TextCall(event, lap_percent, role) /\ UNCHANGED <<paceVars, editVars, eventVars>>

BackendReturn(c, answer) ==
    TextReturn(c, answer) /\ UNCHANGED <<paceVars, editVars, eventVars>>

BackendRaise(c) ==
    TextRaise(c) /\ UNCHANGED <<paceVars, editVars, eventVars>>

NoJob == [outcome |-> "none", target |-> "", before |-> {}, ctimes |-> <<>>,
          video |-> <<>>, output |-> <<>>,
          base |-> [name |-> <<>>, start |-> 0], clips |-> <<>>,
          lengths |-> <<>>]

EditIdle ==
    /\ durations = <<>>
    /\ ctime = <<>>
    /\ unreadable = {}
    /\ video_format = "mp4"
    /\ njobs = 0
    /\ job = NoJob

Init ==
    /\ TextInit
    /\ EventsInit
    /\ PaceInit
    /\ EditIdle
    /\ files = {}

Next ==
    \/ \E e \in Events, l \in LapPercents, r \in Roles : GenerateNameError(e, l, r)
    \/ \E e \in Events, l \in LapPercents, r \in Roles : GenerateCall(e, l, r)
    \/ \E c \in inflight, a \in Answers : BackendReturn(c, a)
    \/ \E c \in inflight : BackendRaise(c)

Spec == Init /\ [][Next]_vars

(***************************************************************************)
(* Claims about the conversation window (specification Spec).              *)
(***************************************************************************)
\* No generate call is waiting for the backend and call `outcome` ended last
JustEnded(outcome) ==
    /\ inflight = {}
    /\ last_call.outcome = outcome
    /\ last_call.id = ncalls

IsUser(turn) == turn.role = "user"
IsAssistant(turn) == turn.role = "assistant"

\* Every user turn of the window is followed by an assistant turn
AllUserTurnsPaired(window) ==
    \A i \in 1..Len(window) :
        IsUser(window[i]) => /\ i < Len(window)
                             /\ IsAssistant(window[i + 1])

\* C1: after each successful generate call, whatever calls succeeded or failed
\* before it, the window length is even and at most 2 x memory_limit.
C1_EvenAndBoundedAfterSuccess ==
    JustEnded("returned") =>
        /\ Len(previous_responses) % 2 = 0
        /\ Len(previous_responses) <= 2 * memory_limit

\* C2: after a generate call failed at the backend, the window is the window
\* before the call or that window with the call's user turn appended: nothing
\* else appended, nothing evicted, nothing changed or reordered.
C2_FailureKeepsWindow ==
    JustEnded("backend_error") =>
        \/ previous_responses = last_call.before
        \/ previous_responses =
               Append(last_call.before, EventMsg(last_call.event))

C2_Witness ==
    /\ JustEnded("backend_error")
    /\ Len(last_call.before) >= 2
    /\ Len(last_call.before) = 2 * memory_limit

\* C3: the window never holds two consecutive user turns.
C3_NoTwoConsecutiveUserTurns ==
    \A i \in 1..(Len(previous_responses) - 1) :
        ~(IsUser(previous_responses[i]) /\ IsUser(previous_responses[i + 1]))

\* C4: once a generate call has failed at the backend and its line is dropped,
\* every user turn of the window is followed by its assistant turn.
C4_NoUnpairedUserTurnAfterFailure ==
    JustEnded("backend_error") => AllUserTurnsPaired(previous_responses)

\* The window as it stands in generate after line 373, before the eviction
Appended ==
    Append(previous_responses,
           FormattedAnswer(last_call'.role, last_call'.answer))

ReturnStep == last_call' # last_call /\ last_call'.outcome = "returned"

EvictingStep == ReturnStep /\ previous_responses' # Appended

EvictsTwoOldest ==
    previous_responses' = SubSeq(Appended, 3, Len(Appended))

KeepsNewest ==
    /\ previous_responses' # <<>>
    /\ previous_responses'[Len(previous_responses')] = Appended[Len(Appended)]

\* C5 as stated: a call that evicts removes exactly the two oldest turns,
\* keeps the others in order and never removes the newest turn, for every
\* memory_limit.
C5_EvictionKeepsNewestAlways ==
    [][EvictingStep => (EvictsTwoOldest /\ KeepsNewest)]_vars

\* C5 amended: a call that evicts removes exactly the two oldest turns and
\* keeps the others in order; it keeps the newest turn when memory_limit >= 1,
\* and with memory_limit = 0 it leaves the window without the call's own turns.
C5_EvictionTwoOldest ==
    [][EvictingStep =>
          /\ EvictsTwoOldest
          /\ memory_limit >= 1 => KeepsNewest
          /\ (memory_limit = 0 /\ last_call'.before = <<>>) =>
                 previous_responses' = <<>>]_vars

C5_Witness ==
    /\ JustEnded("returned")
    /\ memory_limit >= 1
    /\ Len(last_call.before) = 2 * memory_limit
    /\ previous_responses =
           SubSeq(last_call.before, 3, Len(last_call.before))
               \o <<EventMsg(last_call.event),
                    FormattedAnswer(last_call.role, last_call.answer)>>

NumSystem(lg) == IF lg = "none" THEN 2 ELSE 3

\* The messages of call c up to and including its lap hint
HeadOfMessages(c) ==
    LET m == c.messages
        s == NumSystem(league)
        w == Len(c.before)
        h == IF c.lap_percent # NoLap THEN 1 ELSE 0
    IN  /\ Len(m) >= s + w + 1 + h
        /\ \A i \in 1..s : m[i].role = "system"
        /\ \A i \in 1..w : m[s + i] = c.before[i]
        /\ m[s + w + 1] = EventMsg(c.event)
        /\ h = 1 => /\ m[s + w + 2].kind = "lap"
                    /\ m[s + w + 2].val = c.lap_percent[1]
        /\ \A i \in 1..Len(m) : m[i].kind = "lap" => (h = 1 /\ i = s + w + 2)

\* C7 as stated: the list sent to the backend is the system messages, the
\* window as it stood before the call, the new user turn, and a lap hint turn
\* iff lap_percent is not None; nothing else.
C7_MessagesEndWithLapHint ==
    \A c \in inflight :
        /\ HeadOfMessages(c)
        /\ Len(c.messages) = NumSystem(league) + Len(c.before) + 1
                                 + (IF c.lap_percent # NoLap THEN 1 ELSE 0)

\* C7 amended: the list is the system messages, the window as it stood before
\* the call, the new user turn, a lap hint turn iff lap_percent is not None,
\* and last one image turn iff the vision model is configured.
C7_MessagesInOrder ==
    \A c \in inflight :
        LET v == IF gpt_model = "GPT-4 Turbo with Vision" THEN 1 ELSE 0
            n == NumSystem(league) + Len(c.before) + 1
                     + (IF c.lap_percent # NoLap THEN 1 ELSE 0)
        IN  /\ HeadOfMessages(c)
            /\ Len(c.messages) = n + v
            /\ v = 1 => c.messages[n + 1] = ImageMsg
            /\ \A i \in 1..Len(c.messages) :
                   c.messages[i].kind = "image" => (v = 1 /\ i = n + 1)

C7_Witness ==
    \E c \in inflight :
        /\ Len(c.before) >= 2
        /\ c.lap_percent # NoLap
        /\ league # "none"
        /\ gpt_model = "GPT-4 Turbo with Vision"

(***************************************************************************)
(* Specification SpecPacing: Commentary.generate, which runs               *)
(* TextGenerator.generate, picks the voice and runs                        *)
(* VoiceGenerator.generate.  Times are in milliseconds.                    *)
(***************************************************************************)
TextDurations == {500 * k : k \in 0..MaxTextTicks}
SpeechDurations == {1000 * k : k \in 0..MaxSpeechTicks}
\* mp3_file.info.length of the rendered line
AudioLengths == {1000, 5000}

(***************************************************************************)
(* The text transforms of VoiceGenerator.generate.  A text is a sequence   *)
(* of one-character strings.                                               *)
(***************************************************************************)
LowerCase == <<"a", "b", "c", "d", "e", "f", "g", "h", "i", "j", "k", "l", "m",
               "n", "o", "p", "q", "r", "s", "t", "u", "v", "w", "x", "y", "z">>
UpperCase == <<"A", "B", "C", "D", "E", "F", "G", "H", "I", "J", "K", "L", "M",
               "N", "O", "P", "Q", "R", "S", "T", "U", "V", "W", "X", "Y", "Z">>

\* str.upper() of one character
Upper(c) ==
    IF \E i \in 1..26 : LowerCase[i] = c
    THEN UpperCase[CHOOSE i \in 1..26 : LowerCase[i] = c]
    ELSE c

\* Lines 417-420 on a non-empty text
Yell(text) ==
    LET u == [i \in 1..Len(text) |-> Upper(text[i])]
    IN  IF u[Len(u)] = "."
        THEN SubSeq(u, 1, Len(u) - 1) \o <<"!", "!", "!">>
        ELSE u

\* Lines 416-420: text[-1] of the empty text raises IndexError
YellStep(text, yelling) ==
    IF ~yelling THEN [ok |-> TRUE, text |-> text]
    ELSE IF text = <<>> THEN [ok |-> FALSE, text |-> text]
    ELSE [ok |-> TRUE, text |-> Yell(text)]

\* Lines 423-426 from index i (0-based) on; n is len(text) when the loop
\* began.  text[i + 1] past the end raises IndexError.
RECURSIVE HyphenLoop(_, _, _)
HyphenLoop(text, i, n) ==
    IF i >= n THEN [ok |-> TRUE, text |-> text]
    ELSE IF text[i + 1] # "P" THEN HyphenLoop(text, i + 1, n)
    ELSE IF i + 2 > Len(text) THEN [ok |-> FALSE, text |-> text]
    ELSE IF IsDigit(text[i + 2])
    THEN HyphenLoop(SubSeq(text, 1, i) \o <<"P", "-">>
                        \o SubSeq(text, i + 2, Len(text)), i + 1, n)
    ELSE HyphenLoop(text, i + 1, n)

\* Lines 422-426
HyphenStep(text) == HyphenLoop(text, 0, Len(text))

\* Lines 416-426: the text handed to elevenlabs.generate, or IndexError
Transform(text, yelling) ==
    LET y == YellStep(text, yelling)
    IN  IF y.ok THEN HyphenStep(y.text) ELSE y

\* The texts the backend answers with
AnswerText(answer) ==
    <<"T", "h", "e", "y", " ", "c", "r", "a", "s", "h", "e", "d", ".">>

Slack(length, gen_time, gpt_time) == length - gen_time - gpt_time

\* generate that returns as soon as the file is saved
PacingSleepNone(length, gen_time, gpt_time) == 0

\* The pacing sleep that forgets the time spent on the text
PacingSleepWithoutTextTime(length, gen_time, gpt_time) ==
    IF length - gen_time > 0 THEN length - gen_time ELSE 0

\* "Wait for the length of the audio minus the time it took to generate"
PacingSleep(length, gen_time, gpt_time) ==
    IF Slack(length, gen_time, gpt_time) > 0
    THEN Slack(length, gen_time, gpt_time)
    ELSE 0

PacingInit ==
    /\ TextInit
    /\ EventsInit
    /\ memory_limit = 1
    /\ gpt_model = "GPT-4 Turbo"
    /\ league = "none"
    /\ PaceInit
    /\ EditIdle
    /\ files = {}

\* Commentary.generate, lines 65-81, into TextGenerator.generate up to the
\* backend call
CommentaryGenerate(event, lap_percent, role, yelling) ==
    /\ pc = "idle"
    /\ ncalls < MaxLines
    /\ TextCall(event, lap_percent, role)
    /\ pc' = "text"
    /\ frame' = [start_time |-> now, timestamp |-> now, role |-> role,
                 yelling |-> yelling, gpt_time |-> 0]
    /\ UNCHANGED <<now, line, rendered, speech, editVars, eventVars>>

\* Commentary.generate, lines 75-93 for a known role: the text came back
\* after d milliseconds, the voice is picked and gpt_time is taken
CommentaryText(c, answer, d) ==
    /\ pc = "text"
    /\ frame.role \in {"play-by-play", "color"}
    /\ TextReturn(c, answer)
    /\ now' = now + d
    /\ pc' = "voice"
    /\ frame' = [frame EXCEPT !.gpt_time = now' - frame.start_time]
    /\ UNCHANGED <<line, rendered, speech, editVars, eventVars>>

\* Commentary.generate that goes on with the default voice for any other role
CommentaryFallbackVoice(c, answer, d) ==
    /\ pc = "text"
    /\ frame.role \notin {"play-by-play", "color"}
    /\ TextReturn(c, answer)
    /\ now' = now + d
    /\ pc' = "voice"
    /\ frame' = [frame EXCEPT !.gpt_time = now' - frame.start_time]
    /\ UNCHANGED <<line, rendered, speech, editVars, eventVars>>

\* Commentary.generate, lines 75-101 for any other role: no branch of lines
\* 87-90 binds voice, and reading it at line 101 raises UnboundLocalError
CommentaryUnboundVoice(c, answer, d) ==
    /\ pc = "text"
    /\ frame.role \notin {"play-by-play", "color"}
    /\ TextReturn(c, answer)
    /\ now' = now + d
    /\ pc' = "idle"
    /\ frame' = NoFrame
    /\ line' = [NoLine EXCEPT !.outcome = "unbound_voice",
                              !.role = frame.role,
                              !.timestamp = frame.timestamp,
                              !.text_begin = frame.start_time,
                              !.text_end = now',
                              !.returned_at = now']
    /\ UNCHANGED <<rendered, speech, editVars, eventVars>>

\* Commentary.generate, line 75: TextGenerator.generate raised after d
\* milliseconds and the exception leaves Commentary.generate
CommentaryTextRaise(c, d) ==
    /\ pc = "text"
    /\ TextRaise(c)
    /\ now' = now + d
    /\ pc' = "idle"
    /\ frame' = NoFrame
    /\ line' = [NoLine EXCEPT !.outcome = "text_error",
                              !.role = frame.role,
                              !.timestamp = frame.timestamp,
                              !.text_begin = frame.start_time,
                              !.text_end = now',
                              !.returned_at = now']
    /\ UNCHANGED <<rendered, speech, editVars, eventVars>>

\* VoiceGenerator.generate(text, timestamp, gpt_time, yelling), lines 413-456:
\* the text is transformed, the speech is rendered and saved d milliseconds
\* after the call began, the file plays for `length` milliseconds, and the
\* flow sleeps for the rest of that length
VoiceRender(text, yelling, timestamp, gpt_time, d, length) ==
    LET start_time == now
        saved_at == now + d
        gen_time == saved_at - start_time
        name == CommentaryName(timestamp)
    IN  /\ Transform(text, yelling).ok
        /\ speech' = [outcome |-> "sent", text |-> text, yelling |-> yelling,
                      yelled |-> YellStep(text, yelling).text,
                      sent |-> Transform(text, yelling).text]
        /\ files' = files \cup {name}
        /\ durations' = [f \in DOMAIN durations \cup {name} |->
                            IF f = name THEN length ELSE durations[f]]
        /\ rendered' = rendered \cup
                           {[timestamp |-> timestamp, length |-> length]}
        /\ now' = saved_at + PacingSleep(length, gen_time, gpt_time)

\* Commentary.generate, lines 95-102: VoiceGenerator.generate for the line
VoiceGenerate(d, length) ==
    /\ pc = "voice"
    /\ VoiceRender(AnswerText(last_call.answer), frame.yelling,
                   frame.timestamp, frame.gpt_time, d, length)
    /\ line' = [outcome |-> "rendered",
                role |-> frame.role,
                timestamp |-> frame.timestamp,
                length |-> length,
                text_begin |-> frame.start_time,
                text_end |-> now,
                voice_begin |-> now,
                voice_end |-> now + d,
                returned_at |-> now']
    /\ pc' = "idle"
    /\ frame' = NoFrame
    /\ UNCHANGED <<textVars, ctime, unreadable, video_format, eventVars, njobs, job>>

\* VoiceGenerator.generate, lines 416-433: the text transform or the speech
\* backend raised after d milliseconds; nothing is saved
VoiceRaise(d) ==
    /\ pc = "voice"
    /\ now' = now + d
    /\ line' = [NoLine EXCEPT !.outcome = "voice_error",
                              !.role = frame.role,
                              !.timestamp = frame.timestamp,
                              !.text_begin = frame.start_time,
                              !.text_end = now,
                              !.voice_begin = now,
                              !.voice_end = now',
                              !.returned_at = now']
    /\ speech' = [NoSpeech EXCEPT !.outcome = "raised",
                                  !.text = AnswerText(last_call.answer),
                                  !.yelling = frame.yelling]
    /\ pc' = "idle"
    /\ frame' = NoFrame
    /\ UNCHANGED <<textVars, files, rendered, editVars, eventVars>>

PacingNext ==
    \/ \E l \in LapPercents, r \in Roles, y \in BOOLEAN :
           CommentaryGenerate(1, l, r, y)
    \/ \E c \in inflight, a \in Answers, d \in TextDurations :
           CommentaryText(c, a, d)
    \/ \E c \in inflight, a \in Answers, d \in TextDurations :
           CommentaryUnboundVoice(c, a, d)
    \/ \E c \in inflight, d \in TextDurations : CommentaryTextRaise(c, d)
    \/ \E d \in SpeechDurations, length \in AudioLengths : VoiceGenerate(d, length)
    \/ \E d \in SpeechDurations : VoiceRaise(d)

SpecPacing == PacingInit /\ [][PacingNext]_vars

\* C8: after a line is rendered, the flow was blocked for exactly
\* slack = rendered duration - speech elapsed - text elapsed when slack > 0,
\* and not at all when slack <= 0.
C8_PacingBlocksForSlack ==
    line.outcome = "rendered" =>
        LET textElapsed == line.text_end - line.text_begin
            speechElapsed == line.voice_end - line.voice_begin
            slack == line.length - speechElapsed - textElapsed
            blocked == line.returned_at - line.voice_end
        IN  /\ slack > 0 => blocked = slack
            /\ slack <= 0 => blocked = 0

C8_Witness ==
    /\ line.outcome = "rendered"
    /\ line.length = 5000
    /\ line.voice_end - line.voice_begin = 1000
    /\ line.text_end - line.text_begin = 500
    /\ line.returned_at - line.voice_end = 3500

(***************************************************************************)
(* Specification SpecEditor: Editor.create_video over the working          *)
(* directory.                                                              *)
(***************************************************************************)
\* file.endswith(ext)
EndsWith(name, ext) == name # <<>> /\ name[Len(name)] = ext

Mp3Files(fs) == {f \in fs : EndsWith(f, ".mp3")}
Mp4Files(fs) == {f \in fs : EndsWith(f, ".mp4")}

\* str.replace(token, "")
Without(name, token) == SelectSeq(name, LAMBDA t : t # token)

\* The text that _get_commentary_audio hands to float()
TimestampText(name) == Without(Without(name, "commentary_"), ".mp3")

\* float(text) does not raise ValueError
FloatParses(text) ==
    /\ text # <<>>
    /\ \A i \in 1..Len(text) : IsDigit(text[i])

DigitValue(t) == CHOOSE d \in 0..9 : Digit(d) = t

\* float(text) of a text of digits
RECURSIVE FloatOf(_)
FloatOf(text) ==
    IF text = <<>> THEN 0
    ELSE 10 * FloatOf(SubSeq(text, 1, Len(text) - 1))
             + DigitValue(text[Len(text)])

\* Lines 97-103: the start of the clip.  The code divides by 1000 and starts
\* the clip at that many seconds; the model keeps starts in milliseconds.
ClipStart(name) == FloatOf(TimestampText(name))

\* "Cut end of audio to avoid glitch", in milliseconds
TailCut == 50

\* One clip, ended where the next clip of the folder starts
ClipEndingAtNext(f, du) ==
    LET full == du[f] - TailCut
        later == {ClipStart(g) : g \in {h \in DOMAIN du : ClipStart(h) > ClipStart(f)}}
        next == CHOOSE s \in later : \A u \in later : s <= u
    IN  [name |-> f, start |-> ClipStart(f),
         length |-> IF later # {} /\ next < ClipStart(f) + full
                    THEN next - ClipStart(f) ELSE full]

\* Lines 93-112 for one file
Clip(f, du) ==
    [name |-> f, start |-> ClipStart(f), length |-> du[f] - TailCut]

\* Lines 92-115: one clip for each file of the listing
RECURSIVE ClipsOf(_, _)
ClipsOf(fs, du) ==
    IF fs = {} THEN <<>>
    ELSE LET f == CHOOSE x \in fs : TRUE
         IN  <<Clip(f, du)>> \o ClipsOf(fs \ {f}, du)

\* _get_commentary_audio gets through its loop body for this file
AudioLoads(f) == FloatParses(TimestampText(f)) /\ f \notin unreadable

\* max(files) without the key: the video whose name sorts last
NameOrder(v) == IF v = <<"a", ".mp4">> THEN 1 ELSE 2

LatestVideosByName(fs, ct) ==
    {v \in Mp4Files(fs) : \A w \in Mp4Files(fs) : NameOrder(w) <= NameOrder(v)}

\* What max(files, key=os.path.getctime) can return: the first file of the
\* listing among those with the greatest creation time
LatestVideos(fs, ct) ==
    {v \in Mp4Files(fs) : \A w \in Mp4Files(fs) : ct[w] <= ct[v]}

CtimeOf(fs, ct) == [v \in Mp4Files(fs) |-> ct[v]]

\* The playing times of the .mp3 files that are left
DurationsOf(fs, du) == [f \in Mp3Files(fs) |-> du[f]]

\* _delete_commentary_audio
DeleteCommentaryAudio(fs) == fs \ Mp3Files(fs)

\* _delete_screenshot
DeleteScreenshot(fs) == fs \ {ScreenshotName}

Formats == {"mp4", "avi"}
Ext(format) == IF format = "mp4" THEN ".mp4" ELSE ".avi"

\* The save dialog's answer: a path outside the working directory or the
\* initial file name inside it ("" is the cancelled dialog)
Targets == {"elsewhere/output_video", "videos/output_video"}

\* f"{target}.{video_format}" as a name of the working directory, or <<>>
OutputName(target, format) ==
    IF target = "videos/output_video"
    THEN <<"output_video", Ext(format)>>
    ELSE <<>>

EditorFiles ==
    {CommentaryName(1000), CommentaryName(4000), <<"x", ".mp3">>,
     <<"a", ".mp4">>, <<"b", ".mp4">>, ScreenshotName, <<"notes", ".txt">>}

EditorInit ==
    /\ TextInit
    /\ EventsInit
    /\ memory_limit = 1
    /\ gpt_model = "GPT-4 Turbo"
    /\ league = "none"
    /\ PaceInit
    /\ files \in SUBSET EditorFiles
    /\ durations \in [Mp3Files(files) -> AudioLengths]
    /\ ctime \in [Mp4Files(files) -> 1..MaxCtime]
    /\ unreadable \in {{}} \cup {{f} : f \in Mp3Files(files) \cup Mp4Files(files)}
    /\ video_format \in Formats
    /\ njobs = 0
    /\ job = NoJob

Started(target) ==
    [NoJob EXCEPT !.target = target, !.before = files, !.ctimes = ctime,
                  !.lengths = durations]

\* create_video, lines 159-166, with a video in the directory
CreateVideoCancel ==
    /\ njobs < MaxJobs
    /\ LET audioGone == DeleteCommentaryAudio(files)
       IN  /\ Mp4Files(audioGone) # {}
           /\ \E v \in LatestVideos(audioGone, ctime) :
                  /\ files' = DeleteScreenshot(audioGone \ {v})
                  /\ job' = [Started("") EXCEPT !.outcome = "cancelled",
                                                !.video = v]
    /\ ctime' = CtimeOf(files', ctime)
    /\ unreadable' = unreadable \cap files'
    /\ njobs' = njobs + 1
    /\ durations' = DurationsOf(files', durations)
    /\ UNCHANGED <<textVars, paceVars, video_format, eventVars>>

\* create_video, lines 159-163, without a video in the directory: max() of
\* the empty list raises ValueError in _delete_latest_video
CreateVideoCancelNoVideo ==
    /\ njobs < MaxJobs
    /\ Mp4Files(files) = {}
    /\ files' = DeleteCommentaryAudio(files)
    /\ job' = [Started("") EXCEPT !.outcome = "cancel_error"]
    /\ unreadable' = unreadable \cap files'
    /\ njobs' = njobs + 1
    /\ durations' = DurationsOf(files', durations)
    /\ UNCHANGED <<textVars, paceVars, ctime, video_format, eventVars>>

\* create_video, lines 168-172, without a video in the directory: max() of
\* the empty list raises ValueError in _get_latest_video
CreateVideoNoVideo(target) ==
    /\ njobs < MaxJobs
    /\ Mp4Files(files) = {}
    /\ job' = [Started(target) EXCEPT !.outcome = "no_video"]
    /\ njobs' = njobs + 1
    /\ UNCHANGED <<textVars, paceVars, files, ctime, unreadable, video_format, eventVars,
                   durations>>

\* create_video, lines 168-178: the latest video cannot be loaded
CreateVideoBadVideo(target) ==
    /\ njobs < MaxJobs
    /\ \E v \in LatestVideos(files, ctime) :
           /\ v \in unreadable
           /\ job' = [Started(target) EXCEPT !.outcome = "bad_video",
                                             !.video = v]
    /\ njobs' = njobs + 1
    /\ UNCHANGED <<textVars, paceVars, files, ctime, unreadable, video_format, eventVars,
                   durations>>

\* create_video, lines 168-181: float() or AudioFileClip raises on one of the
\* .mp3 files
CreateVideoBadAudio(target) ==
    /\ njobs < MaxJobs
    /\ \E v \in LatestVideos(files, ctime) :
           /\ v \notin unreadable
           /\ \E f \in Mp3Files(files) : ~AudioLoads(f)
           /\ job' = [Started(target) EXCEPT !.outcome = "bad_audio",
                                             !.video = v]
    /\ njobs' = njobs + 1
    /\ UNCHANGED <<textVars, paceVars, files, ctime, unreadable, video_format, eventVars,
                   durations>>

\* The directory after write_videofile created (or began) the output file
Written(target) ==
    LET out == OutputName(target, video_format)
    IN  IF out = <<>> THEN files ELSE files \cup {out}

\* Creation times after write_videofile: a new video is the newest one
WrittenCtime(target, t) ==
    LET out == OutputName(target, video_format)
    IN  [v \in Mp4Files(Written(target)) |->
            IF v = out /\ (v \notin files \/ t = "new")
            THEN MaxCtime + njobs + 1
            ELSE ctime[v]]

\* CreateVideoExportError with the clean-up of lines 202-205 run on the way
\* out (as in a finally clause)
CreateVideoExportErrorCleansUp(target, begun, t) ==
    /\ njobs < MaxJobs
    /\ \E v \in LatestVideos(files, ctime) :
           /\ v \notin unreadable
           /\ \A f \in Mp3Files(files) : AudioLoads(f)
           /\ job' = [Started(target) EXCEPT !.outcome = "export_error",
                                             !.video = v]
           /\ files' = DeleteScreenshot(DeleteCommentaryAudio(files) \ {v})
    /\ ctime' = CtimeOf(files', ctime)
    /\ unreadable' = unreadable \cap files'
    /\ njobs' = njobs + 1
    /\ durations' = DurationsOf(files', durations)
    /\ UNCHANGED <<textVars, paceVars, video_format, eventVars>>

\* create_video, lines 168-200: write_videofile raises; the output file may
\* have been begun
CreateVideoExportError(target, begun, t) ==
    /\ njobs < MaxJobs
    /\ \E v \in LatestVideos(files, ctime) :
           /\ v \notin unreadable
           /\ \A f \in Mp3Files(files) : AudioLoads(f)
           /\ job' = [Started(target) EXCEPT !.outcome = "export_error",
                                             !.video = v]
    /\ files' = IF begun THEN Written(target) ELSE files
    /\ ctime' = IF begun THEN WrittenCtime(target, t) ELSE ctime
    /\ unreadable' = IF begun /\ OutputName(target, video_format) # <<>>
                     THEN unreadable \cup {OutputName(target, video_format)}
                     ELSE unreadable
    /\ njobs' = njobs + 1
    /\ durations' = DurationsOf(files', durations)
    /\ UNCHANGED <<textVars, paceVars, video_format, eventVars>>

\* create_video, lines 168-205: the export succeeds and the directory is
\* cleaned up
CreateVideoExport(target, t) ==
    /\ njobs < MaxJobs
    /\ \E v \in LatestVideos(files, ctime) :
           /\ v \notin unreadable
           /\ \A f \in Mp3Files(files) : AudioLoads(f)
           /\ job' = [Started(target) EXCEPT
                          !.outcome = "exported",
                          !.video = v,
                          !.output = OutputName(target, video_format),
                          !.base = [name |-> v, start |-> 0],
                          !.clips = ClipsOf(Mp3Files(files), durations)]
    /\ LET audioGone == DeleteCommentaryAudio(Written(target))
       IN  \E d \in LatestVideos(audioGone, WrittenCtime(target, t)) :
               files' = DeleteScreenshot(audioGone \ {d})
    /\ ctime' = CtimeOf(files', WrittenCtime(target, t))
    /\ unreadable' = unreadable \cap files'
    /\ njobs' = njobs + 1
    /\ durations' = DurationsOf(files', durations)
    /\ UNCHANGED <<textVars, paceVars, video_format, eventVars>>

Overwrites == {"new", "kept"}

EditorNext ==
    \/ CreateVideoCancel
    \/ CreateVideoCancelNoVideo
    \/ \E target \in Targets : CreateVideoNoVideo(target)
    \/ \E target \in Targets : CreateVideoBadVideo(target)
    \/ \E target \in Targets : CreateVideoBadAudio(target)
    \/ \E target \in Targets, begun \in BOOLEAN, t \in Overwrites :
           CreateVideoExportError(target, begun, t)
    \/ \E target \in Targets, t \in Overwrites : CreateVideoExport(target, t)

SpecEditor == EditorInit /\ [][EditorNext]_vars

\* No commentary audio and no capture image is left in the directory
NoTransientFiles == Mp3Files(files) = {} /\ ScreenshotName \notin files

\* C9: after create_video ended by a successful export or by cancellation,
\* whatever the directory held before, it holds no .mp3 file and no
\* screenshot.png.
C9_CleanAfterExportOrCancel ==
    job.outcome \in {"exported", "cancelled", "cancel_error"} =>
        NoTransientFiles

AssemblyFailed ==
    job.outcome \in {"no_video", "bad_video", "bad_audio", "export_error"}

\* C10: when an assembly fails (no video, an unreadable or malformed audio
\* file, an export error), every file that was in the directory when it began
\* is still there.
C10_FailedAssemblyDeletesNothing ==
    AssemblyFailed => job.before \subseteq files

C10_Witness ==
    /\ job.outcome = "export_error"
    /\ Mp3Files(job.before) # {}
    /\ Mp4Files(job.before) # {}
    /\ ScreenshotName \in job.before

\* What a successful assembly consumed: the audio it mixed, the video it
\* selected and the capture image
Consumed == Mp3Files(job.before) \cup {job.video, ScreenshotName}

\* C11: a successful assembly deletes exactly the audio artifacts it mixed,
\* the video it selected and any capture image, and nothing else; the
\* exported output file exists after create_video returned, for every
\* destination and container format.
C11_ExportDeletesExactlyConsumed ==
    job.outcome = "exported" =>
        /\ files \ {job.output} = (job.before \ Consumed) \ {job.output}
        /\ job.output # <<>> => job.output \in files

\* C12: an assembly with a chosen destination selects a .mp4 file of the
\* directory whose creation time is the greatest, whatever the names and the
\* listing order, and it fails when the directory holds no video.
C12_SelectsLatestVideo ==
    (job.outcome # "none" /\ job.target # "") =>
        LET videos == Mp4Files(job.before)
        IN  /\ videos = {} <=> job.outcome = "no_video"
            /\ videos # {} =>
                   /\ job.video \in videos
                   /\ \A w \in videos : job.ctimes[w] <= job.ctimes[job.video]

\* The older video has the name that sorts last; the newer one is selected
C12_Witness ==
    /\ job.outcome = "exported"
    /\ job.video = <<"a", ".mp4">>
    /\ <<"b", ".mp4">> \in job.before
    /\ job.ctimes[<<"b", ".mp4">>] < job.ctimes[<<"a", ".mp4">>]

(***************************************************************************)
(* Specification SpecSession: one recording session.  Lines are generated  *)
(* while the recording runs, then create_video is called once.  The        *)
(* folder then holds the readable recording and only files written by      *)
(* VoiceGenerator.generate, so the other outcomes of create_video (no      *)
(* video, unreadable video, unloadable audio) cannot occur here.           *)
(***************************************************************************)
\* time.time() - rec_start_time when the first event arrives
StartOffsets == {0, 1234}

Recording == <<"a", ".mp4">>

SessionInit ==
    /\ TextInit
    /\ EventsInit
    /\ memory_limit = 1
    /\ gpt_model = "GPT-4 Turbo"
    /\ league = "none"
    /\ now \in StartOffsets
    /\ pc = "idle"
    /\ frame = NoFrame
    /\ line = NoLine
    /\ rendered = {}
    /\ speech = NoSpeech
    /\ files = {Recording}
    /\ ctime = [v \in {Recording} |-> 1]
    /\ durations = <<>>
    /\ unreadable = {}
    /\ video_format \in Formats
    /\ njobs = 0
    /\ job = NoJob

SessionNext ==
    \/ \E l \in LapPercents, r \in Roles, y \in BOOLEAN :
           /\ njobs = 0
           /\ ncalls < MaxSessionLines
           /\ CommentaryGenerate(1, l, r, y)
    \/ \E c \in inflight, a \in Answers, d \in TextDurations :
           CommentaryText(c, a, d)
    \/ \E c \in inflight, a \in Answers, d \in TextDurations :
           CommentaryUnboundVoice(c, a, d)
    \/ \E c \in inflight, d \in TextDurations : CommentaryTextRaise(c, d)
    \/ \E d \in SpeechDurations, length \in AudioLengths : VoiceGenerate(d, length)
    \/ \E d \in SpeechDurations : VoiceRaise(d)
    \/ pc = "idle" /\ njobs = 0 /\ CreateVideoCancel
    \/ \E target \in Targets, begun \in BOOLEAN, t \in Overwrites :
           pc = "idle" /\ njobs = 0 /\ CreateVideoExportError(target, begun, t)
    \/ \E target \in Targets, t \in Overwrites :
           pc = "idle" /\ njobs = 0 /\ CreateVideoExport(target, t)

SpecSession == SessionInit /\ [][SessionNext]_vars

RenderedAt == {r.timestamp : r \in rendered}

\* C13: the file written for a line computed at millisecond offset t is
\* named so that the assembly starts its clip at exactly t / 1000 seconds
\* (t milliseconds), and lines of different offsets have different files.
C13_TimestampRoundTrip ==
    /\ njobs = 0 =>
           /\ \A t \in RenderedAt : CommentaryName(t) \in files
           /\ Cardinality(Mp3Files(files)) = Cardinality(RenderedAt)
    /\ job.outcome = "exported" =>
           /\ Len(job.clips) = Cardinality(RenderedAt)
           /\ \A t \in RenderedAt :
                  \E i \in 1..Len(job.clips) :
                      /\ job.clips[i].name = CommentaryName(t)
                      /\ job.clips[i].start = t

C13_Witness ==
    /\ job.outcome = "exported"
    /\ Cardinality(RenderedAt) = 2
    /\ \E i \in 1..Len(job.clips) : job.clips[i].start > 6000
    /\ \E i \in 1..Len(job.clips) : job.clips[i].start = 1234


ClipsNamed(f) == {i \in 1..Len(job.clips) : job.clips[i].name = f}

\* C14: the exported mix has the video's audio at offset 0 and, for every
\* .mp3 file of the folder, exactly one clip, at the offset read from the
\* file's name and with the file's whole length less the 50 ms tail,
\* whether or not clips overlap.
C14_MixHoldsEveryClipInFull ==
    job.outcome = "exported" =>
        /\ job.base = [name |-> job.video, start |-> 0]
        /\ Len(job.clips) = Cardinality(Mp3Files(job.before))
        /\ \A f \in Mp3Files(job.before) :
               /\ Cardinality(ClipsNamed(f)) = 1
               /\ \A i \in ClipsNamed(f) :
                      /\ job.clips[i].start = ClipStart(f)
                      /\ job.clips[i].length = job.lengths[f] - TailCut

\* Two clips that overlap on the timeline are both in the exported mix.
C14_Witness ==
    /\ job.outcome = "exported"
    /\ \E i, j \in 1..Len(job.clips) :
           /\ job.clips[i].start < job.clips[j].start
           /\ job.clips[i].start + job.clips[i].length > job.clips[j].start


(***************************************************************************)
(* Specification SpecVoice: VoiceGenerator.generate called once on a text. *)
(***************************************************************************)
\* The characters of the texts: the marker letter, a lower-case letter that
\* upper() turns into the marker letter, a digit and the period
Alphabet == {"P", "p", "2", "."}

Texts == UNION {[1..n -> Alphabet] : n \in 0..MaxTextLen}

VoiceInit ==
    /\ TextInit
    /\ EventsInit
    /\ memory_limit = 1
    /\ gpt_model = "GPT-4 Turbo"
    /\ league = "none"
    /\ now = 0
    /\ pc = "idle"
    /\ frame = NoFrame
    /\ line = NoLine
    /\ EditIdle
    /\ files = {}
    /\ rendered = {}
    /\ \E text \in Texts, yelling \in BOOLEAN :
           speech = [NoSpeech EXCEPT !.text = text, !.yelling = yelling]

\* VoiceGenerator.generate, lines 416-456, run to the end
VoiceSpeak(d, length) ==
    /\ speech.outcome = "none"
    /\ VoiceRender(speech.text, speech.yelling, 0, 0, d, length)
    /\ UNCHANGED <<textVars, pc, frame, line, ctime, unreadable,
                   video_format, eventVars, njobs, job>>

\* Line 419: text[-1] of the empty text raises IndexError
VoiceYellIndexError ==
    /\ speech.outcome = "none"
    /\ ~YellStep(speech.text, speech.yelling).ok
    /\ speech' = [speech EXCEPT !.outcome = "yell_error"]
    /\ UNCHANGED <<textVars, files, now, pc, frame, line, rendered, editVars, eventVars>>

\* Line 425: text[i + 1] past the end of the text raises IndexError
VoiceHyphenIndexError ==
    /\ speech.outcome = "none"
    /\ YellStep(speech.text, speech.yelling).ok
    /\ ~Transform(speech.text, speech.yelling).ok
    /\ speech' = [speech EXCEPT
                      !.outcome = "hyphen_error",
                      !.yelled = YellStep(speech.text, speech.yelling).text]
    /\ UNCHANGED <<textVars, files, now, pc, frame, line, rendered, editVars, eventVars>>

VoiceNext ==
    \/ \E d \in SpeechDurations, length \in AudioLengths : VoiceSpeak(d, length)
    \/ VoiceYellIndexError
    \/ VoiceHyphenIndexError

SpecVoice == VoiceInit /\ [][VoiceNext]_vars

\* A marker letter immediately followed by a digit, at position i of the text
MarkerAt(text, i) ==
    i + 1 <= Len(text) /\ text[i] = "P" /\ IsDigit(text[i + 1])

\* The text with a hyphen after every marker letter followed by a digit
RECURSIVE Hyphenated(_)
Hyphenated(text) ==
    IF text = <<>> THEN <<>>
    ELSE IF MarkerAt(text, 1) THEN <<"P", "-">> \o Hyphenated(Tail(text))
    ELSE <<Head(text)>> \o Hyphenated(Tail(text))

HasMarker(text) == \E i \in 1..Len(text) : MarkerAt(text, i)

\* C15: the text sent to the speech service is the text (after yelling)
\* with a hyphen after every marker letter that is immediately followed by
\* a digit, however many there are and wherever they are.
C15_EveryMarkerHyphenated ==
    speech.outcome = "sent" => speech.sent = Hyphenated(speech.yelled)

\* C16: a text without a marker letter followed by a digit goes through the
\* marker step without error and is sent as it was after yelling.
C16_NoMarkerNoChange ==
    (speech.outcome \in {"sent", "hyphen_error"} /\ ~HasMarker(speech.yelled)) =>
        /\ speech.outcome = "sent"
        /\ speech.sent = speech.yelled

\* The whole text in upper case, a trailing period replaced by "!!!"
ExpectedYell(text) ==
    LET u == [i \in 1..Len(text) |-> Upper(text[i])]
    IN  IF text # <<>> /\ text[Len(text)] = "."
        THEN SubSeq(u, 1, Len(u) - 1) \o <<"!", "!", "!">>
        ELSE u

\* C17: with yelling the yelling step turns every text into its upper-case
\* form with a trailing period replaced by "!!!"; without yelling it leaves
\* the text as it was.
C17_YellingTransform ==
    speech.outcome # "none" =>
        /\ speech.outcome # "yell_error"
        /\ speech.yelled = IF speech.yelling THEN ExpectedYell(speech.text)
                           ELSE speech.text


KnownRoles == {"play-by-play", "color"}

\* C18: a generate call with a role other than "play-by-play" and "color"
\* ends with an error and produces no audio file: nothing is rendered with
\* a fallback voice.
C18_UnknownRoleFailsWithoutAudio ==
    (line.outcome # "none" /\ line.role \notin KnownRoles) =>
        /\ line.outcome \in {"unbound_voice", "text_error"}
        /\ CommentaryName(line.timestamp) \notin files
        /\ \A r \in rendered : r.timestamp # line.timestamp

\* An unknown role failed after a line of a known role had been rendered.
C18_Witness ==
    /\ line.outcome = "unbound_voice"
    /\ line.role \notin KnownRoles
    /\ rendered # {}

\* C19: when a call has just failed for its unknown role, the backend was
\* not invoked for it and the window is as it was before the call.
C19_UnknownRoleLeavesWindow ==
    (pc = "idle" /\ line.outcome = "unbound_voice") =>
        /\ last_call.outcome # "returned"
        /\ previous_responses = last_call.before

\* C20: in one flow, a line rendered later has a timestamp at or after the
\* end of every line rendered earlier, and a call in progress has started
\* at or after the end of every rendered line.
C20_ClipsOfOneFlowNeverOverlap ==
    /\ \A r1, r2 \in rendered :
           r1.timestamp < r2.timestamp =>
               r2.timestamp >= r1.timestamp + r1.length
    /\ \A r1, r2 \in rendered :
           r1.timestamp = r2.timestamp => r1 = r2
    /\ pc # "idle" =>
           \A r \in rendered : frame.timestamp >= r.timestamp + r.length

\* Two rendered lines, the second starting the moment the first one ends,
\* and generation of the first one took less than the line lasts.
C20_Witness ==
    \E r1, r2 \in rendered :
        /\ r2.timestamp = r1.timestamp + r1.length
        /\ r1.length = 5000


(***************************************************************************)
(* Further claims about the conversation window (specification Spec).      *)
(***************************************************************************)
\* C21: in every reachable state every assistant turn of the window has a
\* user turn right before it; in particular the window never starts with an
\* assistant turn.
C21_AssistantTurnFollowsItsUserTurn ==
    \A i \in 1..Len(previous_responses) :
        IsAssistant(previous_responses[i]) =>
            /\ i > 1
            /\ IsUser(previous_responses[i - 1])


\* How many messages of kind k the list holds
CountKind(messages, k) ==
    Cardinality({i \in 1..Len(messages) : messages[i].kind = k})

\* What one step may make of the window: leave it, append the user turn of
\* an event, or append an assistant reply and evict
WindowStep ==
    \/ previous_responses' = previous_responses
    \/ \E e \in Events :
           previous_responses' = Append(previous_responses, EventMsg(e))
    \/ \E r \in Roles, a \in Answers :
           previous_responses' =
               Evict(Append(previous_responses, FormattedAnswer(r, a)),
                     memory_limit)

\* C22: the window only ever holds event user turns and assistant replies,
\* each step adds at most one of these, and the list sent for a call holds
\* no lap hint and no image but the call's own, and the system messages once.
C22_OnlyEventAndReplyStored ==
    /\ [](\A i \in 1..Len(previous_responses) :
              previous_responses[i].kind \in {"event", "answer"})
    /\ [](\A c \in inflight :
              /\ CountKind(c.messages, "lap") =
                     (IF c.lap_percent # NoLap THEN 1 ELSE 0)
              /\ CountKind(c.messages, "image") =
                     (IF gpt_model = "GPT-4 Turbo with Vision" THEN 1 ELSE 0)
              /\ Cardinality({i \in 1..Len(c.messages) :
                                  c.messages[i].role = "system"})
                     = NumSystem(league))
    /\ [][WindowStep]_vars

\* A call with a lap hint and an image is waiting, after an earlier call
\* with a lap hint returned and left its two turns in the window.
C22_Witness ==
    /\ gpt_model = "GPT-4 Turbo with Vision"
    /\ last_call.outcome = "returned"
    /\ last_call.lap_percent # NoLap
    /\ \E c \in inflight :
           /\ c.lap_percent # NoLap
           /\ c.id = last_call.id + 1
           /\ Len(c.before) >= 2


(***************************************************************************)
(* Specification SpecEvents: Events._add_event and Events._remove_event    *)
(* called in any order.  An event is its id and its type; description,     *)
(* focus and timestamp are carried along and never read by the class.      *)
(***************************************************************************)
EventTypes == {"overtake", "incident"}

\* list.remove(x): the list without the first element equal to x
ListRemove(list, x) ==
    IF \E j \in 1..Len(list) : list[j] = x
    THEN LET j == CHOOSE k \in 1..Len(list) :
                      /\ list[k] = x
                      /\ \A m \in 1..(k - 1) : list[m] # x
         IN  SubSeq(list, 1, j - 1) \o SubSeq(list, j + 1, Len(list))
    ELSE list

\* Lines 40-42: the for loop over the list that the body shortens; i is the
\* number of elements the iterator has handed out
RECURSIVE RemoveLoop(_, _, _)
RemoveLoop(list, i, id) ==
    IF i >= Len(list) THEN list
    ELSE IF list[i + 1].id = id
    THEN RemoveLoop(ListRemove(list, list[i + 1]), i + 1, id)
    ELSE RemoveLoop(list, i + 1, id)

EventsOnlyInit ==
    /\ TextInit
    /\ EventsInit
    /\ memory_limit = 1
    /\ gpt_model = "GPT-4 Turbo"
    /\ league = "none"
    /\ PaceInit
    /\ EditIdle
    /\ files = {}

\* _add_event that numbers the new event by the length of the list
AddEventNumberedByLength(type) ==
    /\ id_counter < MaxEvents
    /\ events' = <<[id |-> Len(events), type |-> type]>> \o events
    /\ id_counter' = id_counter + 1
    /\ UNCHANGED <<textVars, paceVars, editVars, files>>

\* _add_event, lines 18-31
AddEvent(type) ==
    /\ id_counter < MaxEvents
    /\ events' = <<[id |-> id_counter, type |-> type]>> \o events
    /\ id_counter' = id_counter + 1
    /\ UNCHANGED <<textVars, paceVars, editVars, files>>

\* _remove_event, lines 39-42
RemoveEvent(id) ==
    /\ events' = RemoveLoop(events, 0, id)
    /\ UNCHANGED <<id_counter, textVars, paceVars, editVars, files>>

EventsNext ==
    \/ \E type \in EventTypes : AddEvent(type)
    \/ \E id \in 0..MaxEvents : RemoveEvent(id)

SpecEvents == EventsOnlyInit /\ [][EventsNext]_vars

IdsOf(list) == {list[i].id : i \in 1..Len(list)}

\* C23: the ids of the events list are strictly descending from the head
\* (so pairwise distinct), every id in the list was handed out before, the
\* counter never goes back, and an event that enters the list carries the
\* counter's value, which is then used up.
C23_IdsDescendingNeverReused ==
    /\ [](\A i \in 1..(Len(events) - 1) : events[i].id > events[i + 1].id)
    /\ [](\A i \in 1..Len(events) : events[i].id < id_counter)
    /\ [][/\ id_counter' >= id_counter
          /\ \A n \in IdsOf(events') \ IdsOf(events) :
                 n = id_counter /\ id_counter' = n + 1]_vars

\* Events 0 and 2 were removed and event 3 was added after a removal.
C23_Witness ==
    /\ Len(events) = 2
    /\ events[1].id = 3
    /\ events[2].id = 1
    /\ id_counter = 4

====
